---- MODULE Spec2Model ----
(***************************************************************************)
(* A model of the EuchreGame class (src/unnamed/part_001): the fields of   *)
(* the game object, the timer callbacks it schedules with setTimeout, and  *)
(* the handlers the page calls on it.                                      *)
(*                                                                         *)
(* Every method of the class is an operator on a record g that holds the   *)
(* fields of `this`; a method that calls another method is the composition *)
(* of the two operators, so one action is one whole handler or callback:   *)
(* it takes the game to the record g that the handler returns.             *)
(* Suits are written "S" (spades), "H" (hearts), "D" (diamonds) and "C"    *)
(* (clubs); null is written "none" for a seat or a suit.                   *)
(***************************************************************************)
EXTENDS Integers, Sequences, FiniteSets, Bags, TLC

VARIABLES
    deck,                  \* the cards not dealt yet; deck.pop() takes the last
    players,               \* players[seat] = [cards, isAI, tricks]
    team1Score,            \* south & north
    team2Score,            \* east & west
    trump,
    currentDealer,
    currentPlayer,
    currentTrick,          \* sequence of [player, card]
    round,
    stats,                 \* [handsPlayed, gamesWon, gamesLost]
    trumpSelectionPhase,
    trumpSelectionPlayer,
    trumpSelectionRound,
    flippedCard,
    passedPlayers,
    playingAlone,
    alonePlayer,
    kitty,
    canGoAlone,
    trumpTurnOrder,
    dealerDiscardPhase,
    gamePhase,
    message,               \* the text last given to showMessage, as a tag
    trumpDialog,           \* the #trump-selection element: [active, options]
    difficulty,
    discardDialog,         \* the #dealer-discard element: card elements shown, 0 if hidden
    clickable,             \* indices of south's cards that hold an onclick handler
    timers                 \* bag of callbacks pending in setTimeout

vars == <<deck, players, team1Score, team2Score, trump, currentDealer, currentPlayer,
          currentTrick, round, stats, trumpSelectionPhase, trumpSelectionPlayer,
          trumpSelectionRound, flippedCard, passedPlayers, playingAlone,
          alonePlayer, kitty, canGoAlone, trumpTurnOrder, dealerDiscardPhase,
          gamePhase, message, trumpDialog, difficulty, discardDialog, clickable,
          timers>>

(***************************************************************************)
(* Bounds of the model.                                                    *)
(***************************************************************************)
\* Math.random is the environment's: a shuffle is one of NumSeeds draw sequences.
NumSeeds == 1
\* dealCards counts the hands dealt in stats.handsPlayed; the model deals at most
\* MaxHands hands.
MaxHands == 2

\* SpecDeal deals from one of NumShuffles draw sequences.
NumShuffles == 20

\* The cards played that are followed in the hand of a new game asked for from
\* the menu.
MaxMenuPlays == 4

\* passedPlayers is followed up to this length in that hand.
MaxPassed == 4

(***************************************************************************)
(* Seats, cards.                                                           *)
(***************************************************************************)
Seats == {"south", "west", "north", "east"}

\* The clockwise order every method spells out as ['south','west','north','east'].
dealerOrder == <<"south", "west", "north", "east">>

\* Array.prototype.indexOf: 0-based, -1 when x is absent.
indexOf(seq, x) ==
    IF \E i \in 1..Len(seq) : seq[i] = x
    THEN (CHOOSE i \in 1..Len(seq) : seq[i] = x /\ \A k \in 1..(i - 1) : seq[k] # x) - 1
    ELSE -1

\* dealerOrder[(dealerOrder.indexOf(seat) + k) % 4]
seatAfter(seat, k) == dealerOrder[((indexOf(dealerOrder, seat) + k) % 4) + 1]

suits == <<"S", "H", "D", "C">>
ranks == <<"9", "10", "J", "Q", "K", "A">>
Suits == {suits[i] : i \in 1..4}

NoCard == [rank |-> "none", suit |-> "none"]

Remove(seq, i) == [k \in 1..(Len(seq) - 1) |-> IF k < i THEN seq[k] ELSE seq[k + 1]]

getPartner(player) ==
    CASE player = "south" -> "north"
      [] player = "north" -> "south"
      [] player = "east"  -> "west"
      [] player = "west"  -> "east"
      [] OTHER            -> "none"

\* createDeck before its call of shuffle: suits outside, ranks inside.
createDeck == [k \in 1..24 |-> [rank |-> ranks[((k - 1) % 6) + 1],
                                suit |-> suits[((k - 1) \div 6) + 1]]]

\* The random source: the n-th number of draw sequence `seed`.
nextRandom(r) == (r * 75 + 74) % 65537

\* A swap that loses the card at position b's partner: seq[a] is overwritten only.
SwapOverwrites(seq, a, b) == [seq EXCEPT ![a] = seq[b]]

Swap(seq, a, b) == [seq EXCEPT ![a] = seq[b], ![b] = seq[a]]

\* shuffle: for (i = length-1; i > 0; i--) { j = floor(random()*(i+1)); swap(i, j) }
\* i is the 0-based index of the code; r is the state of the random source.
RECURSIVE shuffleFrom(_, _, _)
shuffleFrom(cards, i, r) ==
    IF i <= 0 THEN cards
    ELSE LET r1 == nextRandom(r)
             j  == r1 % (i + 1)
         IN  shuffleFrom(Swap(cards, i + 1, j + 1), i - 1, r1)

shuffle(cards, seed) == shuffleFrom(cards, Len(cards) - 1, seed)

(***************************************************************************)
(* Card ranking and suit following.                                        *)
(***************************************************************************)
sameColor(trumpSuit, suit) ==
    \/ (trumpSuit = "S" /\ suit = "C")
    \/ (trumpSuit = "C" /\ suit = "S")
    \/ (trumpSuit = "H" /\ suit = "D")
    \/ (trumpSuit = "D" /\ suit = "H")

\* getEffectiveSuit that knows the right bower only.
getEffectiveSuitRightBowerOnly(g, card) ==
    IF g.trump = "none" THEN card.suit
    ELSE IF card.rank = "J" /\ card.suit = g.trump THEN g.trump
    ELSE card.suit

getEffectiveSuit(g, card) ==
    IF g.trump = "none" THEN card.suit
    ELSE IF card.rank = "J" /\ card.suit = g.trump THEN g.trump
    ELSE IF card.rank = "J" /\ sameColor(g.trump, card.suit) THEN g.trump
    ELSE card.suit

canFollowSuit(g, hand, leadSuit) ==
    \E i \in 1..Len(hand) : getEffectiveSuit(g, hand[i]) = leadSuit

\* isCardPlayable without its test of whose turn it is.
isCardPlayableAnySeat(g, card, player) ==
    IF Len(g.currentTrick) = 0 THEN TRUE
    ELSE LET leadSuit == getEffectiveSuit(g, g.currentTrick[1].card)
         IN  IF ~canFollowSuit(g, g.players[player].cards, leadSuit) THEN TRUE
             ELSE getEffectiveSuit(g, card) = leadSuit

isCardPlayable(g, card, player) ==
    IF g.currentPlayer # player THEN FALSE
    ELSE IF Len(g.currentTrick) = 0 THEN TRUE
    ELSE LET leadSuit == getEffectiveSuit(g, g.currentTrick[1].card)
         IN  IF ~canFollowSuit(g, g.players[player].cards, leadSuit) THEN TRUE
             ELSE getEffectiveSuit(g, card) = leadSuit

\* The trump values with the ten above the queen, as in games that rank 10 high.
trumpValuesTenHigh(rank) ==
    CASE rank = "A" -> 900 [] rank = "K" -> 800 [] rank = "10" -> 700
      [] rank = "Q" -> 600 [] rank = "9" -> 500 [] OTHER -> 0

trumpValues(rank) ==
    CASE rank = "A" -> 900 [] rank = "K" -> 800 [] rank = "Q" -> 700
      [] rank = "10" -> 600 [] rank = "9" -> 500 [] OTHER -> 0

leadValues(rank) ==
    CASE rank = "A" -> 400 [] rank = "K" -> 300 [] rank = "Q" -> 200
      [] rank = "J" -> 150 [] rank = "10" -> 100 [] rank = "9" -> 50 [] OTHER -> 0

getCardValue(card, trumpSuit, leadSuit) ==
    IF card.rank = "J" /\ card.suit = trumpSuit THEN 1000
    ELSE IF card.rank = "J" /\ sameColor(trumpSuit, card.suit) THEN 999
    ELSE IF card.suit = trumpSuit /\ card.rank # "J" THEN trumpValues(card.rank)
    ELSE IF card.suit = leadSuit /\ card.suit # trumpSuit THEN leadValues(card.rank)
    ELSE 0

(***************************************************************************)
(* The game object.  This is the record of the fields of `this`; Apply(g)  *)
(* is the state in which the fields are those of g.                        *)
(***************************************************************************)
This ==
    [deck |-> deck, players |-> players, team1Score |-> team1Score, team2Score |-> team2Score,
     trump |-> trump, currentDealer |-> currentDealer, currentPlayer |-> currentPlayer,
     currentTrick |-> currentTrick, round |-> round, stats |-> stats,
     trumpSelectionPhase |-> trumpSelectionPhase,
     trumpSelectionPlayer |-> trumpSelectionPlayer,
     trumpSelectionRound |-> trumpSelectionRound, flippedCard |-> flippedCard,
     passedPlayers |-> passedPlayers, playingAlone |-> playingAlone,
     alonePlayer |-> alonePlayer, kitty |-> kitty, canGoAlone |-> canGoAlone,
     trumpTurnOrder |-> trumpTurnOrder, dealerDiscardPhase |-> dealerDiscardPhase,
     gamePhase |-> gamePhase, message |-> message, trumpDialog |-> trumpDialog,
     difficulty |-> difficulty, discardDialog |-> discardDialog,
     clickable |-> clickable, timers |-> timers]

Apply(g) ==
    /\ deck' = g.deck
    /\ players' = g.players
    /\ team1Score' = g.team1Score
    /\ team2Score' = g.team2Score
    /\ trump' = g.trump
    /\ currentDealer' = g.currentDealer
    /\ currentPlayer' = g.currentPlayer
    /\ currentTrick' = g.currentTrick
    /\ round' = g.round
    /\ stats' = g.stats
    /\ trumpSelectionPhase' = g.trumpSelectionPhase
    /\ trumpSelectionPlayer' = g.trumpSelectionPlayer
    /\ trumpSelectionRound' = g.trumpSelectionRound
    /\ flippedCard' = g.flippedCard
    /\ passedPlayers' = g.passedPlayers
    /\ playingAlone' = g.playingAlone
    /\ alonePlayer' = g.alonePlayer
    /\ kitty' = g.kitty
    /\ canGoAlone' = g.canGoAlone
    /\ trumpTurnOrder' = g.trumpTurnOrder
    /\ dealerDiscardPhase' = g.dealerDiscardPhase
    /\ gamePhase' = g.gamePhase
    /\ message' = g.message
    /\ trumpDialog' = g.trumpDialog
    /\ difficulty' = g.difficulty
    /\ discardDialog' = g.discardDialog
    /\ clickable' = g.clickable
    /\ timers' = g.timers

\* A pending setTimeout callback; winner is processTrickCompletion's argument.
Timer(fn, winner) == [fn |-> fn, winner |-> winner]

setTimeout(g, fn, winner) == [g EXCEPT !.timers = @ (+) SetToBag({Timer(fn, winner)})]

\* The callback t leaves the timer queue when it runs.
fired(g, t) == [g EXCEPT !.timers = @ (-) SetToBag({t})]

showMessage(g, text) == [g EXCEPT !.message = text]

\* Percentages: Math.random() < 0.3 is a draw below 30.
getAIAggressiveness(g) ==
    CASE g.difficulty = "easy"   -> [trump1 |-> 20, trump2 |-> 30, playSkill |-> 30]
      [] g.difficulty = "medium" -> [trump1 |-> 30, trump2 |-> 50, playSkill |-> 60]
      [] g.difficulty = "hard"   -> [trump1 |-> 40, trump2 |-> 70, playSkill |-> 80]
      [] OTHER                   -> [trump1 |-> 30, trump2 |-> 50, playSkill |-> 60]

\* The values Math.random() takes in the model, in hundredths.
RandomDraws == {0, 50, 99}

\* displayCards: which of south's cards get an onclick handler.
displayCards(g) ==
    LET hand == g.players["south"].cards
    IN  [g EXCEPT !.clickable =
            IF g.currentPlayer = "south"
            THEN {i \in 1..Len(hand) : isCardPlayable(g, hand[i], "south")}
            ELSE 1..Len(hand)]

\* The dialog with all four suits on offer in round 2.
showTrumpSelectionDialogAllSuits(g, firstRound) ==
    [g EXCEPT !.canGoAlone = FALSE,
              !.trumpDialog = [active  |-> TRUE,
                               options |-> IF firstRound
                                           THEN {g.flippedCard.suit}
                                           ELSE Suits]]

showTrumpSelectionDialog(g, firstRound) ==
    [g EXCEPT !.canGoAlone = FALSE,
              !.trumpDialog = [active  |-> TRUE,
                               options |-> IF firstRound
                                           THEN {g.flippedCard.suit}
                                           ELSE Suits \ {g.flippedCard.suit}]]

hideTrumpSelection(g) == [g EXCEPT !.trumpDialog.active = FALSE]

processTrumpSelection(g) ==
    IF g.trumpSelectionPlayer = "south"
    THEN IF g.trumpSelectionRound = 1
         THEN showTrumpSelectionDialog(showMessage(g, "Order up?"), TRUE)
         ELSE showTrumpSelectionDialog(showMessage(g, "Choose trump suit"), FALSE)
    ELSE LET text == IF g.trumpSelectionRound = 1
                     THEN IF g.trumpSelectionPlayer = "north"
                          THEN "can assist or pass" ELSE "can order it up or pass"
                     ELSE "can name trump or pass"
         IN  setTimeout(showMessage(g, text), "aiTrumpSelection", "none")

\* The bidding opened by the dealer instead of the seat to the dealer's left.
startTrumpSelectionFromDealer(g) ==
    LET startIndex == indexOf(dealerOrder, g.currentDealer)
        order      == [i \in 1..4 |-> dealerOrder[((startIndex + i - 1) % 4) + 1]]
    IN  processTrumpSelection(
            [g EXCEPT !.trumpSelectionPhase = TRUE,
                      !.trumpSelectionRound = 1,
                      !.passedPlayers = <<>>,
                      !.trumpTurnOrder = order,
                      !.trumpSelectionPlayer = order[1]])

startTrumpSelection(g) ==
    LET leftOfDealer == seatAfter(g.currentDealer, 1)
        startIndex   == indexOf(dealerOrder, leftOfDealer)
        order        == [i \in 1..4 |-> dealerOrder[((startIndex + i - 1) % 4) + 1]]
    IN  processTrumpSelection(
            [g EXCEPT !.trumpSelectionPhase = TRUE,
                      !.trumpSelectionRound = 1,
                      !.passedPlayers = <<>>,
                      !.trumpTurnOrder = order,
                      !.trumpSelectionPlayer = order[1]])

\* dealOrder.forEach(pos => players[pos].cards.push(deck.pop())), from position k on.
RECURSIVE dealRound(_, _, _)
dealRound(d, dealOrder, k) ==
    IF k > Len(dealOrder) THEN d
    ELSE dealRound([deck    |-> SubSeq(d.deck, 1, Len(d.deck) - 1),
                    players |-> [d.players EXCEPT ![dealOrder[k]].cards =
                                                    Append(@, d.deck[Len(d.deck)])]],
                   dealOrder, k + 1)

\* One batch dealt seat by seat: each seat takes its n cards together.
dealBatchBySeat(d, dealOrder, n) ==
    LET L == Len(d.deck)
    IN  [deck    |-> SubSeq(d.deck, 1, L - 4 * n),
         players |-> [p \in Seats |->
                        [d.players[p] EXCEPT !.cards =
                            @ \o [m \in 1..n |->
                                    d.deck[L - (n * indexOf(dealOrder, p) + (m - 1))]]]]]

\* One batch of dealCards: n rounds of one card to each seat.
RECURSIVE dealBatch(_, _, _)
dealBatch(d, dealOrder, n) ==
    IF n = 0 THEN d ELSE dealBatch(dealRound(d, dealOrder, 1), dealOrder, n - 1)

\* A deal that leaves the flipped card in the kitty as well.
dealCardsKittyKeepsFlipped(g, seed, firstBatch) ==
    LET shuffled    == shuffle(createDeck, seed)
        cleared     == [p \in Seats |-> [g.players[p] EXCEPT !.cards = <<>>, !.tricks = 0]]
        dealerIndex == indexOf(dealerOrder, g.currentDealer)
        dealOrder   == [i \in 1..4 |-> dealerOrder[((dealerIndex + i) % 4) + 1]]
        secondBatch == 5 - firstBatch
        b1          == dealBatch([deck |-> shuffled, players |-> cleared], dealOrder, firstBatch)
        b2          == dealBatch(b1, dealOrder, secondBatch)
        g1          == [g EXCEPT !.deck = b2.deck,
                                 !.players = b2.players,
                                 !.flippedCard = b2.deck[Len(b2.deck)],
                                 !.kitty = b2.deck]
        g2          == startTrumpSelection(displayCards(g1))
    IN  [g2 EXCEPT !.stats.handsPlayed = @ + 1]

dealCards(g, seed, firstBatch) ==
    LET shuffled    == shuffle(createDeck, seed)
        cleared     == [p \in Seats |-> [g.players[p] EXCEPT !.cards = <<>>, !.tricks = 0]]
        dealerIndex == indexOf(dealerOrder, g.currentDealer)
        dealOrder   == [i \in 1..4 |-> dealerOrder[((dealerIndex + i) % 4) + 1]]
        secondBatch == 5 - firstBatch
        b1          == dealBatch([deck |-> shuffled, players |-> cleared], dealOrder, firstBatch)
        b2          == dealBatch(b1, dealOrder, secondBatch)
        rest        == SubSeq(b2.deck, 1, Len(b2.deck) - 1)
        g1          == [g EXCEPT !.deck = rest,
                                 !.players = b2.players,
                                 !.flippedCard = b2.deck[Len(b2.deck)],
                                 !.kitty = rest]
        g2          == startTrumpSelection(displayCards(g1))
    IN  [g2 EXCEPT !.stats.handsPlayed = @ + 1]

startPlay(g) == setTimeout([g EXCEPT !.gamePhase = "play"], "startPlay", "none")

\* The callback startPlay schedules.
startPlayCallback(g) ==
    LET first == seatAfter(g.currentDealer, 1)
        cp    == IF g.playingAlone /\ first = getPartner(g.alonePlayer)
                 THEN seatAfter(g.currentDealer, 2) ELSE first
        g1    == [g EXCEPT !.currentPlayer = cp]
    IN  IF g1.players[cp].isAI
        THEN setTimeout(g1, "aiPlay", "none")
        ELSE showMessage(g1, "Your turn!")

getAIDealerDiscard(g, dealer) ==
    LET cards == g.players[dealer].cards
        value(i) == getCardValue(cards[i], g.trump, "none")
        worst == CHOOSE i \in 1..Len(cards) :
                    /\ \A k \in 1..Len(cards) : value(i) <= value(k)
                    /\ \A k \in 1..(i - 1) : value(k) > value(i)
    IN  cards[worst]

showDealerDiscardDialog(g) ==
    [g EXCEPT !.discardDialog = Len(g.players["south"].cards)]

\* An AI dealer that takes the flipped card and discards nothing.
handleDealerPickupKeepsSix(g) ==
    IF g.currentDealer = "south"
    THEN showDealerDiscardDialog(
            [g EXCEPT !.players["south"].cards = Append(@, g.flippedCard),
                      !.dealerDiscardPhase = TRUE])
    ELSE LET g1 == [g EXCEPT !.players[g.currentDealer].cards = Append(@, g.flippedCard)]
         IN  startPlay(showMessage(g1, "picked up and discarded"))

handleDealerPickup(g) ==
    IF g.currentDealer = "south"
    THEN showDealerDiscardDialog(
            [g EXCEPT !.players["south"].cards = Append(@, g.flippedCard),
                      !.dealerDiscardPhase = TRUE])
    ELSE LET g1 == [g EXCEPT !.players[g.currentDealer].cards = Append(@, g.flippedCard)]
             discardCard == getAIDealerDiscard(g1, g.currentDealer)
             cardIndex == indexOf(g1.players[g.currentDealer].cards, discardCard) + 1
             g2 == [g1 EXCEPT !.players[g.currentDealer].cards = Remove(@, cardIndex)]
         IN  startPlay(showMessage(g2, "picked up and discarded"))

\* discardCard(cardIndex): the click on card cardIndex of the discard dialog.  For an
\* index past the hand, splice removes nothing and reading the rank of the
\* undefined card throws before displayCards and startPlay.
discardCard(g, cardIndex) ==
    LET hit == cardIndex <= Len(g.players["south"].cards)
        g1  == [g EXCEPT !.players["south"].cards = IF hit THEN Remove(@, cardIndex) ELSE @,
                         !.dealerDiscardPhase = FALSE,
                         !.discardDialog = 0]
    IN  IF hit THEN startPlay(displayCards(showMessage(g1, "You discarded"))) ELSE g1

selectTrump(g, suit) ==
    LET g1 == [g EXCEPT !.trump = suit]
    IN  IF g1.trumpSelectionPlayer = "south"
        THEN showMessage([g1 EXCEPT !.canGoAlone = TRUE], "Trump selected!")
        ELSE LET g2 == hideTrumpSelection([g1 EXCEPT !.trumpSelectionPhase = FALSE])
             IN  IF g2.trumpSelectionRound = 1 THEN handleDealerPickup(g2) ELSE startPlay(g2)

declareAlone(g) ==
    LET g1 == hideTrumpSelection([g EXCEPT !.playingAlone = TRUE,
                                           !.alonePlayer = "south",
                                           !.trumpSelectionPhase = FALSE])
        g2 == showMessage(g1, "is playing alone!")
    IN  IF g2.trumpSelectionRound = 1 THEN handleDealerPickup(g2) ELSE startPlay(g2)

continueWithPartner(g) ==
    LET g1 == hideTrumpSelection([g EXCEPT !.trumpSelectionPhase = FALSE])
    IN  IF g1.trumpSelectionRound = 1 THEN handleDealerPickup(g1) ELSE startPlay(g1)

nextTrumpPlayer(g) ==
    LET currentIndex == indexOf(g.trumpTurnOrder, g.trumpSelectionPlayer)
        g1 == [g EXCEPT !.passedPlayers = Append(@, g.trumpSelectionPlayer)]
    IN  IF Len(g1.passedPlayers) = 4
        THEN IF g1.trumpSelectionRound = 1
             THEN setTimeout(
                    showMessage([g1 EXCEPT !.trumpSelectionRound = 2,
                                           !.passedPlayers = <<>>,
                                           !.trumpSelectionPlayer = g1.trumpTurnOrder[1]],
                                "Second round of trump selection..."),
                    "processTrumpSelection", "none")
             ELSE setTimeout(showMessage(g1, "Everyone passed - redealing..."),
                             "dealCards", "none")
        ELSE IF g1.trumpSelectionRound = 2 /\ Len(g1.passedPlayers) = 3
        THEN setTimeout(
                showMessage([g1 EXCEPT !.trumpSelectionPlayer = g1.currentDealer],
                            "Stick the dealer!"),
                "processTrumpSelection", "none")
        ELSE processTrumpSelection(
                [g1 EXCEPT !.trumpSelectionPlayer =
                              g1.trumpTurnOrder[((currentIndex + 1) % 4) + 1]])

passTrump(g) ==
    IF g.canGoAlone THEN continueWithPartner(g)
    ELSE nextTrumpPlayer(hideTrumpSelection(g))

\* r1, r2, r3: the values of the calls of Math.random, in the order of the code
\* (bid or pass, which suit, alone or not).
aiTrumpSelection(g, r1, r2, r3) ==
    LET aiSettings == getAIAggressiveness(g)
        player == g.trumpSelectionPlayer
        availableSuits == SelectSeq(suits, LAMBDA s : s # g.flippedCard.suit)
        chosenSuit == availableSuits[((r2 * Len(availableSuits)) \div 100) + 1]
        alone(g1, chance, textAlone, text) ==
            IF r3 < chance
            THEN showMessage([g1 EXCEPT !.playingAlone = TRUE, !.alonePlayer = player],
                             textAlone)
            ELSE showMessage(g1, text)
        passed == setTimeout(showMessage(g, "passes."), "nextTrumpPlayer", "none")
    IN  IF g.trumpSelectionRound = 1
        THEN IF r1 < aiSettings.trump1
             THEN alone(selectTrump(g, g.flippedCard.suit),
                        IF player = "north" THEN 15
                        ELSE IF player \in {"east", "west"} THEN 8 ELSE 0,
                        "ordered up and is going alone!", "ordered up")
             ELSE passed
        ELSE IF player = g.currentDealer /\ Len(g.passedPlayers) = 3
             THEN showMessage(selectTrump(g, chosenSuit), "is stuck and calls trump!")
             ELSE IF r1 < aiSettings.trump2
                  THEN alone(selectTrump(g, chosenSuit),
                             IF player = "north" THEN 10
                             ELSE IF player \in {"east", "west"} THEN 5 ELSE 0,
                             "called trump and is going alone!", "called trump")
                  ELSE passed

(***************************************************************************)
(* Play.                                                                   *)
(***************************************************************************)
\* nextPlayer that does not skip the lone player's partner.
nextPlayerNoSkip(g) ==
    LET cp == seatAfter(g.currentPlayer, 1)
        g1 == [g EXCEPT !.currentPlayer = cp]
    IN  IF g1.players[cp].isAI
        THEN displayCards(setTimeout(g1, "aiPlay", "none"))
        ELSE showMessage(displayCards(g1), "Your turn!")

nextPlayer(g) ==
    LET next == seatAfter(g.currentPlayer, 1)
        cp   == IF g.playingAlone /\ next = getPartner(g.alonePlayer)
                THEN seatAfter(next, 1) ELSE next
        g1   == [g EXCEPT !.currentPlayer = cp]
    IN  IF g1.players[cp].isAI
        THEN displayCards(setTimeout(g1, "aiPlay", "none"))
        ELSE showMessage(displayCards(g1), "Your turn!")

\* evaluateTrick with its comparison reversed: the lowest value takes the trick.
evaluateTrickLowest(g) ==
    IF Len(g.currentTrick) = 0 THEN g
    ELSE LET leadSuit == g.currentTrick[1].card.suit
             value(i) == getCardValue(g.currentTrick[i].card, g.trump, leadSuit)
             w == CHOOSE i \in 1..Len(g.currentTrick) :
                     /\ \A k \in 1..Len(g.currentTrick) : value(k) >= value(i)
                     /\ \A k \in 1..(i - 1) : value(k) > value(i)
             winner == g.currentTrick[w]
             g1 == [g EXCEPT !.players[winner.player].tricks = @ + 1]
         IN  setTimeout(showMessage(g1, "wins the trick!"),
                        "processTrickCompletion", winner.player)

\* The first play of the highest getCardValue wins (a later card must be strictly
\* higher); the lead suit is the printed suit of the first card.
evaluateTrick(g) ==
    IF Len(g.currentTrick) = 0 THEN g
    ELSE LET leadSuit == g.currentTrick[1].card.suit
             value(i) == getCardValue(g.currentTrick[i].card, g.trump, leadSuit)
             w == CHOOSE i \in 1..Len(g.currentTrick) :
                     /\ \A k \in 1..Len(g.currentTrick) : value(k) <= value(i)
                     /\ \A k \in 1..(i - 1) : value(k) < value(i)
             winner == g.currentTrick[w]
             g1 == [g EXCEPT !.players[winner.player].tricks = @ + 1]
         IN  setTimeout(showMessage(g1, "wins the trick!"),
                        "processTrickCompletion", winner.player)

\* playCard without its follow-suit check: what C10 must tell apart from playCard.
playCardAnySuit(g, player, cardIndex) ==
    IF player # g.currentPlayer THEN showMessage(g, "It's not your turn!")
    ELSE IF g.playingAlone /\ player = getPartner(g.alonePlayer)
    THEN IF player = "south"
         THEN showMessage(g, "Your partner is playing alone!")
         ELSE showMessage(g, "sits out")
    ELSE LET card == g.players[player].cards[cardIndex]
             g1 == [g EXCEPT !.players[player].cards = Remove(@, cardIndex),
                             !.currentTrick = Append(@, [player |-> player,
                                                         card   |-> card])]
             g2 == displayCards(g1)
             expectedCards == IF g2.playingAlone THEN 3 ELSE 4
         IN  IF Len(g2.currentTrick) = expectedCards
             THEN evaluateTrick(g2)
             ELSE nextPlayer(g2)

playCard(g, player, cardIndex) ==
    IF player # g.currentPlayer THEN showMessage(g, "It's not your turn!")
    ELSE IF g.playingAlone /\ player = getPartner(g.alonePlayer)
    THEN IF player = "south"
         THEN showMessage(g, "Your partner is playing alone!")
         ELSE showMessage(g, "sits out")
    ELSE LET card == g.players[player].cards[cardIndex]
             leadSuit == getEffectiveSuit(g, g.currentTrick[1].card)
             canFollow == canFollowSuit(g, g.players[player].cards, leadSuit)
             playedCardSuit == getEffectiveSuit(g, card)
         IN  IF /\ player = "south"
                /\ Len(g.currentTrick) > 0
                /\ canFollow
                /\ playedCardSuit # leadSuit
             THEN showMessage(g, "You must follow suit!")
             ELSE LET g1 == [g EXCEPT !.players[player].cards = Remove(@, cardIndex),
                                      !.currentTrick = Append(@, [player |-> player,
                                                                  card   |-> card])]
                      g2 == displayCards(g1)
                      expectedCards == IF g2.playingAlone THEN 3 ELSE 4
                  IN  IF Len(g2.currentTrick) = expectedCards
                      THEN evaluateTrick(g2)
                      ELSE nextPlayer(g2)

\* aiPlay that always plays its middle card, without looking at the trick.
aiPlayMiddleCard(g) ==
    LET player == g.currentPlayer
        cards  == g.players[player].cards
    IN  IF Len(cards) = 0 THEN g
        ELSE IF g.playingAlone /\ player = getPartner(g.alonePlayer) THEN nextPlayer(g)
        ELSE playCard(g, player, (Len(cards) \div 2) + 1)

aiPlay(g) ==
    LET player == g.currentPlayer
        cards  == g.players[player].cards
    IN  IF Len(cards) = 0 THEN g
        ELSE IF g.playingAlone /\ player = getPartner(g.alonePlayer) THEN nextPlayer(g)
        ELSE LET leadSuit == getEffectiveSuit(g, g.currentTrick[1].card)
                 follows(i) == getEffectiveSuit(g, cards[i]) = leadSuit
                 cardIndex ==
                    IF Len(g.currentTrick) > 0
                    THEN IF \E i \in 1..Len(cards) : follows(i)
                         THEN CHOOSE i \in 1..Len(cards) :
                                 follows(i) /\ \A k \in 1..(i - 1) : ~follows(k)
                         ELSE 1
                    ELSE (Len(cards) \div 2) + 1
             IN  playCard(g, player, cardIndex)

\* endGame that goes on to the next deal instead of a new game.
endGameDealsOn(g, team1Won) ==
    LET g1 == IF team1Won
              THEN showMessage([g EXCEPT !.stats.gamesWon = @ + 1], "win the game!")
              ELSE showMessage([g EXCEPT !.stats.gamesLost = @ + 1], "Game over")
    IN  setTimeout(g1, "dealCards", "none")

endGame(g, team1Won) ==
    LET g1 == IF team1Won
              THEN showMessage([g EXCEPT !.stats.gamesWon = @ + 1], "win the game!")
              ELSE showMessage([g EXCEPT !.stats.gamesLost = @ + 1], "Game over")
    IN  setTimeout(g1, "newGame", "none")

\* rotateDealerChip that passes the deal to the right.
rotateDealerChipBackwards(g) == [g EXCEPT !.currentDealer = seatAfter(g.currentDealer, 3)]

rotateDealerChip(g) == [g EXCEPT !.currentDealer = seatAfter(g.currentDealer, 1)]

\* endHand with `points = -2` of the lone euchre taken off team 1's score.
endHandPenalty(g) ==
    LET team1Tricks == g.players["south"].tricks + g.players["north"].tricks
        team2Tricks == g.players["east"].tricks + g.players["west"].tricks
        scored ==
            IF g.playingAlone
            THEN IF g.alonePlayer = "south"
                 THEN IF team1Tricks = 5
                      THEN showMessage([g EXCEPT !.team1Score = @ + 4],
                                       "You marched alone! +4 points!")
                      ELSE IF team1Tricks >= 3
                      THEN showMessage([g EXCEPT !.team1Score = @ + 1],
                                       "You made it alone! +1 point!")
                      ELSE showMessage([g EXCEPT !.team2Score = @ + 2,
                                                 !.team1Score = @ - 2],
                                       "You were euchred while alone!")
                 ELSE IF team2Tricks = 5
                      THEN showMessage([g EXCEPT !.team2Score = @ + 4],
                                       "marched alone! +4 points!")
                      ELSE IF team2Tricks >= 3
                      THEN showMessage([g EXCEPT !.team2Score = @ + 1],
                                       "made it alone! +1 point!")
                      ELSE showMessage([g EXCEPT !.team1Score = @ + 2],
                                       "was euchred while alone!")
            ELSE IF team1Tricks >= 3
                 THEN IF team1Tricks = 5
                      THEN showMessage([g EXCEPT !.team1Score = @ + 2], "marched! +2 points!")
                      ELSE showMessage([g EXCEPT !.team1Score = @ + 1], "made it! +1 point!")
                 ELSE showMessage([g EXCEPT !.team2Score = @ + 2], "were euchred!")
    IN  IF scored.team1Score >= 10 THEN endGame(scored, TRUE)
        ELSE IF scored.team2Score >= 10 THEN endGame(scored, FALSE)
        ELSE setTimeout(
                rotateDealerChip([scored EXCEPT !.round = @ + 1,
                                                !.playingAlone = FALSE,
                                                !.alonePlayer = "none"]),
                "dealCards", "none")

endHand(g) ==
    LET team1Tricks == g.players["south"].tricks + g.players["north"].tricks
        team2Tricks == g.players["east"].tricks + g.players["west"].tricks
        scored ==
            IF g.playingAlone
            THEN IF g.alonePlayer = "south"
                 THEN IF team1Tricks = 5
                      THEN showMessage([g EXCEPT !.team1Score = @ + 4],
                                       "You marched alone! +4 points!")
                      ELSE IF team1Tricks >= 3
                      THEN showMessage([g EXCEPT !.team1Score = @ + 1],
                                       "You made it alone! +1 point!")
                      ELSE showMessage([g EXCEPT !.team2Score = @ + 2],
                                       "You were euchred while alone!")
                 ELSE IF team2Tricks = 5
                      THEN showMessage([g EXCEPT !.team2Score = @ + 4],
                                       "marched alone! +4 points!")
                      ELSE IF team2Tricks >= 3
                      THEN showMessage([g EXCEPT !.team2Score = @ + 1],
                                       "made it alone! +1 point!")
                      ELSE showMessage([g EXCEPT !.team1Score = @ + 2],
                                       "was euchred while alone!")
            ELSE IF team1Tricks >= 3
                 THEN IF team1Tricks = 5
                      THEN showMessage([g EXCEPT !.team1Score = @ + 2], "marched! +2 points!")
                      ELSE showMessage([g EXCEPT !.team1Score = @ + 1], "made it! +1 point!")
                 ELSE showMessage([g EXCEPT !.team2Score = @ + 2], "were euchred!")
    IN  IF scored.team1Score >= 10 THEN endGame(scored, TRUE)
        ELSE IF scored.team2Score >= 10 THEN endGame(scored, FALSE)
        ELSE setTimeout(
                rotateDealerChip([scored EXCEPT !.round = @ + 1,
                                                !.playingAlone = FALSE,
                                                !.alonePlayer = "none"]),
                "dealCards", "none")

processTrickCompletion(g, winner) ==
    LET g1 == [g EXCEPT !.currentTrick = <<>>]
    IN  IF Len(g1.players["south"].cards) = 0 THEN endHand(g1)
        ELSE LET cp == IF g1.playingAlone /\ winner = getPartner(g1.alonePlayer)
                       THEN seatAfter(winner, 1) ELSE winner
                 g2 == [g1 EXCEPT !.currentPlayer = cp]
             IN  IF g2.players[cp].isAI
                 THEN setTimeout(g2, "aiPlay", "none")
                 ELSE showMessage(displayCards(g2), "Your turn!")

\* newGame that passes the deal on before it deals.
newGameRotatesDealer(g, seed, firstBatch) ==
    dealCards(
        hideTrumpSelection(
            [g EXCEPT !.team1Score = 0,
                      !.team2Score = 0,
                      !.round = 1,
                      !.currentTrick = <<>>,
                      !.trump = "none",
                      !.trumpSelectionPhase = FALSE,
                      !.trumpSelectionPlayer = "none",
                      !.trumpSelectionRound = 1,
                      !.flippedCard = NoCard,
                      !.passedPlayers = <<>>,
                      !.playingAlone = FALSE,
                      !.alonePlayer = "none",
                      !.kitty = <<>>,
                      !.canGoAlone = FALSE,
                      !.currentDealer = seatAfter(g.currentDealer, 1)]),
        seed, firstBatch)

newGame(g, seed, firstBatch) ==
    dealCards(
        hideTrumpSelection(
            [g EXCEPT !.team1Score = 0,
                      !.team2Score = 0,
                      !.round = 1,
                      !.currentTrick = <<>>,
                      !.trump = "none",
                      !.trumpSelectionPhase = FALSE,
                      !.trumpSelectionPlayer = "none",
                      !.trumpSelectionRound = 1,
                      !.flippedCard = NoCard,
                      !.passedPlayers = <<>>,
                      !.playingAlone = FALSE,
                      !.alonePlayer = "none",
                      !.kitty = <<>>,
                      !.canGoAlone = FALSE]),
        seed, firstBatch)

\* The fields the constructor sets before it calls init; dealer is the result of
\* getRandomDealer.
constructor(dealer) ==
    [deck |-> <<>>,
     players |-> [p \in Seats |-> [cards |-> <<>>, isAI |-> (p # "south"), tricks |-> 0]],
     team1Score |-> 0, team2Score |-> 0, trump |-> "none", currentDealer |-> dealer,
     currentPlayer |-> "none", currentTrick |-> <<>>, round |-> 1,
     stats |-> [handsPlayed |-> 0, gamesWon |-> 0, gamesLost |-> 0],
     trumpSelectionPhase |-> FALSE, trumpSelectionPlayer |-> "none",
     trumpSelectionRound |-> 1, flippedCard |-> NoCard, passedPlayers |-> <<>>,
     playingAlone |-> FALSE, alonePlayer |-> "none", kitty |-> <<>>,
     canGoAlone |-> FALSE, trumpTurnOrder |-> <<>>, dealerDiscardPhase |-> FALSE,
     gamePhase |-> "setup", message |-> "", trumpDialog |-> [active |-> FALSE, options |-> {}],
     difficulty |-> "medium", discardDialog |-> 0, clickable |-> {}, timers |-> EmptyBag]

(***************************************************************************)
(* The state after `new EuchreGame()`: the constructor ends in init, which *)
(* calls newGame.                                                          *)
(***************************************************************************)
Seeds == 1..NumSeeds

\* The state in which the fields of the game object are those of g.
Is(g) ==
    /\ deck = g.deck
    /\ players = g.players
    /\ team1Score = g.team1Score
    /\ team2Score = g.team2Score
    /\ trump = g.trump
    /\ currentDealer = g.currentDealer
    /\ currentPlayer = g.currentPlayer
    /\ currentTrick = g.currentTrick
    /\ round = g.round
    /\ stats = g.stats
    /\ trumpSelectionPhase = g.trumpSelectionPhase
    /\ trumpSelectionPlayer = g.trumpSelectionPlayer
    /\ trumpSelectionRound = g.trumpSelectionRound
    /\ flippedCard = g.flippedCard
    /\ passedPlayers = g.passedPlayers
    /\ playingAlone = g.playingAlone
    /\ alonePlayer = g.alonePlayer
    /\ kitty = g.kitty
    /\ canGoAlone = g.canGoAlone
    /\ trumpTurnOrder = g.trumpTurnOrder
    /\ dealerDiscardPhase = g.dealerDiscardPhase
    /\ gamePhase = g.gamePhase
    /\ message = g.message
    /\ trumpDialog = g.trumpDialog
    /\ difficulty = g.difficulty
    /\ discardDialog = g.discardDialog
    /\ clickable = g.clickable
    /\ timers = g.timers

Init ==
    \E dealer \in Seats, seed \in Seeds, firstBatch \in {2, 3} :
        Is(newGame(constructor(dealer), seed, firstBatch))

(***************************************************************************)
(* Timer callbacks.  Any pending callback may be the next to run.          *)
(***************************************************************************)
Pending(fn) == {t \in BagToSet(timers) : t.fn = fn}

TimerAiTrumpSelection ==
    \E t \in Pending("aiTrumpSelection") : \E r1, r2, r3 \in RandomDraws :
        \E g \in {aiTrumpSelection(fired(This, t), r1, r2, r3)} : Apply(g)

TimerNextTrumpPlayer ==
    \E t \in Pending("nextTrumpPlayer") : \E g \in {nextTrumpPlayer(fired(This, t))} : Apply(g)

TimerProcessTrumpSelection ==
    \E t \in Pending("processTrumpSelection") : 
        \E g \in {processTrumpSelection(fired(This, t))} : Apply(g)

TimerDealCards ==
    \E t \in Pending("dealCards") : \E seed \in Seeds, firstBatch \in {2, 3} :
        /\ stats.handsPlayed < MaxHands
        /\ \E g \in {dealCards(fired(This, t), seed, firstBatch)} : Apply(g)

TimerStartPlay ==
    \E t \in Pending("startPlay") : \E g \in {startPlayCallback(fired(This, t))} : Apply(g)

TimerAiPlay ==
    \E t \in Pending("aiPlay") : \E g \in {aiPlay(fired(This, t))} : Apply(g)

TimerProcessTrickCompletion ==
    \E t \in Pending("processTrickCompletion") :
        \E g \in {processTrickCompletion(fired(This, t), t.winner)} : Apply(g)

TimerNewGame ==
    \E t \in Pending("newGame") : \E seed \in Seeds, firstBatch \in {2, 3} :
        /\ stats.handsPlayed < MaxHands
        /\ \E g \in {newGame(fired(This, t), seed, firstBatch)} : Apply(g)

(***************************************************************************)
(* The human at south: clicks on the elements the page shows.              *)
(***************************************************************************)
\* A suit of the trump dialog: onclick="game.selectTrump(suit)".
ClickTrumpOption ==
    /\ trumpDialog.active
    /\ \E suit \in trumpDialog.options : \E g \in {selectTrump(This, suit)} : Apply(g)

\* The buttons of #alone-option, shown once south has picked a suit.
ClickGoAlone ==
    /\ trumpDialog.active /\ canGoAlone
    /\ \E g \in {declareAlone(This)} : Apply(g)

ClickContinueWithPartner ==
    /\ trumpDialog.active /\ canGoAlone
    /\ \E g \in {continueWithPartner(This)} : Apply(g)

ClickPass ==
    /\ trumpDialog.active
    /\ \E g \in {passTrump(This)} : Apply(g)

\* A card of south's hand: onclick = () => this.playCard('south', index).
ClickCard ==
    \E i \in clickable : \E g \in {playCard(This, "south", i)} : Apply(g)

\* A card of the discard dialog: onclick = () => this.discardCard(index).
ClickDiscard ==
    \E i \in 1..discardDialog : \E g \in {discardCard(This, i)} : Apply(g)

\* playCard('south', index) called on the game object for any card of south's hand,
\* whether or not the card on the page holds a handler.
CallPlayCard ==
    \E i \in 1..Len(players["south"].cards) :
        \E g \in {playCard(This, "south", i)} : Apply(g)

\* endHand() called on the game object.
CallEndHand == \E g \in {endHand(This)} : Apply(g)

(***************************************************************************)
(* Spec: the hand that the constructor deals, from the deal to its         *)
(* scoring, with every click the page offers.  The callbacks that deal the *)
(* next hand are SpecGame's.                                               *)
(***************************************************************************)
Next ==
    \/ TimerAiTrumpSelection
    \/ TimerNextTrumpPlayer
    \/ TimerProcessTrumpSelection
    \/ TimerStartPlay
    \/ TimerAiPlay
    \/ TimerProcessTrickCompletion
    \/ ClickTrumpOption
    \/ ClickGoAlone
    \/ ClickContinueWithPartner
    \/ ClickPass
    \/ ClickCard
    \/ ClickDiscard

Spec == Init /\ [][Next]_vars

\* Spec with playCard also called directly.
NextCalls ==
    \/ Next
    \/ CallPlayCard

SpecCalls == Init /\ [][NextCalls]_vars

(***************************************************************************)
(* SpecTurns: the same hand with a human who clicks a card only when it is *)
(* south's turn to play to the trick.                                      *)
(***************************************************************************)
expectedCards == IF playingAlone THEN 3 ELSE 4

ClickCardOnTurn ==
    /\ currentPlayer = "south"
    /\ Len(currentTrick) < expectedCards
    /\ ClickCard

ClickBid == ClickPass \/ ClickGoAlone \/ ClickContinueWithPartner

NextTurns ==
    \/ TimerAiTrumpSelection
    \/ TimerNextTrumpPlayer
    \/ TimerProcessTrumpSelection
    \/ TimerStartPlay
    \/ TimerAiPlay
    \/ TimerProcessTrickCompletion
    \/ ClickTrumpOption
    \/ ClickGoAlone
    \/ ClickContinueWithPartner
    \/ ClickPass
    \/ ClickCardOnTurn
    \/ ClickDiscard

SpecTurns == Init /\ [][NextTurns]_vars

(***************************************************************************)
(* The Electron menu.  init subscribes to the difficulty-changed event; the *)
(* menu sends it whenever the user picks a level.                          *)
(***************************************************************************)
Difficulties == {"easy", "medium", "hard", "expert"}

\* The callback init passes to electronAPI.onDifficultyChanged.
onDifficultyChanged(g, diff) == [g EXCEPT !.difficulty = diff]

MenuDifficulty ==
    \E diff \in Difficulties \ {difficulty} :
        \E g \in {onDifficultyChanged(This, diff)} : Apply(g)

NextSettings == NextTurns \/ MenuDifficulty

SpecSettings == Init /\ [][NextSettings]_vars

(***************************************************************************)
(* SpecEndHand: endHand called, as the scoring tests of                    *)
(* GAME_DOCUMENTATION.md call it, on a game whose five tricks have been    *)
(* taken: any split of the tricks over the seats that played, any caller,  *)
(* any lone player, scores below 10.                                       *)
(***************************************************************************)
TrickCounts ==
    {f \in [Seats -> 0..5] : f["south"] + f["west"] + f["north"] + f["east"] = 5}

StartScores == {0, 6, 8, 9}

playedHand(dealer, caller, lone, f, s1, s2) ==
    [constructor(dealer) EXCEPT
        !.players = [p \in Seats |-> [cards |-> <<>>, isAI |-> (p # "south"),
                                      tricks |-> f[p]]],
        !.team1Score = s1,
        !.team2Score = s2,
        !.trump = "H",
        !.trumpSelectionPlayer = caller,
        !.trumpTurnOrder = [i \in 1..4 |-> seatAfter(dealer, i)],
        !.playingAlone = (lone # "none"),
        !.alonePlayer = lone,
        !.currentPlayer = caller,
        !.gamePhase = "play",
        !.stats = [handsPlayed |-> 1, gamesWon |-> 0, gamesLost |-> 0]]

InitEndHand ==
    \E dealer \in Seats, caller \in Seats, lone \in Seats \cup {"none"},
       f \in TrickCounts, s1 \in StartScores, s2 \in StartScores :
        /\ lone # "none" => (caller = lone /\ f[getPartner(lone)] = 0)
        /\ Is(playedHand(dealer, caller, lone, f, s1, s2))

\* endHand has not run on this state yet: it always leaves a callback pending.
NextEndHand == timers = EmptyBag /\ CallEndHand

SpecEndHand == InitEndHand /\ [][NextEndHand]_vars

(***************************************************************************)
(* SpecGame: a game under way.  It starts where the last trick of a hand   *)
(* has been evaluated and processTrickCompletion is scheduled, at some     *)
(* score the game can have reached; endHand scores the hand, the next hand *)
(* is dealt (by dealCards, or by newGame when the game has ended) and      *)
(* played, at most MaxHands hands in all.  The human bids, discards and    *)
(* plays when the page waits for them.                                     *)
(***************************************************************************)
LateDealers == {"east", "south"}
LateScores == {<<0, 0>>, <<9, 6>>, <<9, 9>>}
LateSeats == {"south", "east"}
LateTricks == {f \in TrickCounts : f["north"] = 0 /\ f["west"] = 0}

\* The seats that play to a trick, clockwise, ending with seat last.
lastTrickSeats(lone, last) ==
    SelectSeq([i \in 1..4 |-> seatAfter(last, i)], LAMBDA p : p # getPartner(lone))

\* The game when the last card of a hand has been played by seat last: the trick
\* is on the table, its winner has the trick counted, and the partner of a lone
\* player still holds their five cards.
lateHand(dealer, caller, lone, f, s1, s2, last) ==
    LET seats == lastTrickSeats(lone, last)
        g     == playedHand(dealer, caller, lone, f, s1, s2)
        g1    == [g EXCEPT
                    !.deck = SubSeq(createDeck, 1, 3),
                    !.kitty = SubSeq(createDeck, 1, 3),
                    !.flippedCard = createDeck[7],
                    !.currentPlayer = last,
                    !.currentTrick = [i \in 1..Len(seats) |->
                                        [player |-> seats[i], card |-> createDeck[7 + i]]],
                    !.message = "wins the trick!"]
        g2    == IF lone = "none" THEN g1
                 ELSE [g1 EXCEPT !.players[getPartner(lone)].cards =
                                     SubSeq(createDeck, 13, 17)]
    IN  setTimeout(g2, "processTrickCompletion", last)

InitGame ==
    \E dealer \in LateDealers, caller \in LateSeats, lone \in LateSeats \cup {"none"},
       f \in LateTricks, s \in LateScores, last \in LateSeats :
        /\ lone # "none" => caller = lone
        /\ Is(lateHand(dealer, caller, lone, f, s[1], s[2], last))

\* A click on a card when the page waits for south to play: the bidding and the
\* discard are over and no callback is scheduled.
ClickCardWhenAsked ==
    /\ ~trumpSelectionPhase /\ ~dealerDiscardPhase
    /\ timers = EmptyBag
    /\ ClickCardOnTurn

NextGame ==
    \/ TimerAiTrumpSelection
    \/ TimerNextTrumpPlayer
    \/ TimerProcessTrumpSelection
    \/ TimerDealCards
    \/ TimerStartPlay
    \/ TimerAiPlay
    \/ TimerProcessTrickCompletion
    \/ TimerNewGame
    \/ ClickTrumpOption
    \/ ClickGoAlone
    \/ ClickContinueWithPartner
    \/ ClickPass
    \/ ClickCardWhenAsked
    \/ ClickDiscard

SpecGame == InitGame /\ [][NextGame]_vars

(***************************************************************************)
(* The hand after a hand.  SpecHands starts where the last trick of a hand  *)
(* is on the table and south played its last card, and goes through        *)
(* endHand and the next deal.  currentPlayer is not touched between the    *)
(* last play of a hand and the callback of startPlay in the next, so the   *)
(* page takes south's click on a card as a play on turn from the deal on.  *)
(***************************************************************************)
InitHands ==
    \E dealer \in LateDealers :
        Is(lateHand(dealer, "south", "none",
                    [p \in Seats |-> IF p = "south" THEN 3 ELSE IF p = "east" THEN 2 ELSE 0],
                    0, 0, "south"))

\* A click on a card of the fresh hand before any card is played, whatever the
\* page is doing: displayCards leaves the cards clickable when it is south's turn.
ClickCardFirst ==
    /\ currentTrick = <<>> /\ \A p \in Seats : players[p].tricks = 0
    /\ currentPlayer = "south"
    /\ ClickCard

NextHands ==
    \/ TimerAiTrumpSelection
    \/ TimerNextTrumpPlayer
    \/ TimerProcessTrumpSelection
    \/ TimerDealCards
    \/ TimerStartPlay
    \/ TimerAiPlay
    \/ TimerProcessTrickCompletion
    \/ ClickTrumpOption
    \/ ClickGoAlone
    \/ ClickContinueWithPartner
    \/ ClickPass
    \/ ClickCardFirst
    \/ ClickCardWhenAsked
    \/ ClickDiscard

SpecHands == InitHands /\ [][NextHands]_vars

(***************************************************************************)
(* A new game asked for during a game.  init subscribes newGame to the     *)
(* Electron menu event and confirmNewGame calls it from the dialog; neither *)
(* cancels the callbacks the hand in progress has scheduled.               *)
(***************************************************************************)
\* The user asks for a new game before the first card of the hand is played.
MenuNewGame ==
    /\ stats.handsPlayed < MaxHands
    /\ currentTrick = <<>> /\ \A p \in Seats : players[p].tricks = 0
    /\ \E seed \in Seeds, firstBatch \in {2, 3} :
          \E g \in {newGame(This, seed, firstBatch)} : Apply(g)

\* The hand the new game deals is followed until MaxMenuPlays cards have left
\* the hands, and while passedPlayers holds at most MaxPassed seats.
InMenuReach ==
    \/ stats.handsPlayed = 1
    \/ /\ Len(players["south"].cards) + Len(players["west"].cards)
             + Len(players["north"].cards) + Len(players["east"].cards)
             > 20 - MaxMenuPlays
       /\ Len(passedPlayers) <= MaxPassed

NextMenu ==
    \/ InMenuReach /\ TimerAiTrumpSelection
    \/ InMenuReach /\ TimerNextTrumpPlayer
    \/ InMenuReach /\ TimerProcessTrumpSelection
    \/ InMenuReach /\ TimerStartPlay
    \/ InMenuReach /\ TimerAiPlay
    \/ InMenuReach /\ TimerProcessTrickCompletion
    \/ InMenuReach /\ ClickTrumpOption
    \/ InMenuReach /\ ClickGoAlone
    \/ InMenuReach /\ ClickContinueWithPartner
    \/ InMenuReach /\ ClickPass
    \/ InMenuReach /\ ClickCardWhenAsked
    \/ InMenuReach /\ ClickDiscard
    \/ MenuNewGame

SpecMenu == Init /\ [][NextMenu]_vars

(***************************************************************************)
(* SpecDeal: the constructed game object, on which init() calls newGame,   *)
(* which deals, or on which createDeck() is called alone: every dealer the *)
(* constructor can draw, NumShuffles shuffles, both batch orders.          *)
(***************************************************************************)
ShuffleSeeds == 1..NumShuffles

InitDeal == \E dealer \in Seats : Is(constructor(dealer))

\* init(): newGame on the object the constructor has just built.
CallInit ==
    /\ stats.handsPlayed = 0 /\ flippedCard = NoCard
    /\ \E seed \in ShuffleSeeds, firstBatch \in {2, 3} :
          \E g \in {newGame(This, seed, firstBatch)} : Apply(g)

\* createDeck() called on the constructed object, as the deck tests call it.
CallCreateDeck ==
    /\ stats.handsPlayed = 0 /\ flippedCard = NoCard /\ deck = <<>>
    /\ \E seed \in ShuffleSeeds :
          \E g \in {[This EXCEPT !.deck = shuffle(createDeck, seed)]} : Apply(g)

NextDeal ==
    \/ CallInit
    \/ CallCreateDeck

SpecDeal == InitDeal /\ [][NextDeal]_vars

(***************************************************************************)
(* What the claims speak of.                                               *)
(***************************************************************************)
team1Tricks == players["south"].tricks + players["north"].tricks
team2Tricks == players["east"].tricks + players["west"].tricks
TricksTaken == team1Tricks + team2Tricks

\* The seat that set trump: the bidder at the moment of selectTrump.
caller == trumpSelectionPlayer
callerInTeam1 == caller \in {"south", "north"}
loneInTeam1 == alonePlayer \in {"south", "north"}

Team1Gains(n) == team1Score' = team1Score + n /\ team2Score' = team2Score
Team2Gains(n) == team2Score' = team2Score + n /\ team1Score' = team1Score

\* endHand has scored the hand the constructor dealt.
HandScored == round > 1 \/ stats.gamesWon > 0 \/ stats.gamesLost > 0

\* nextTrumpPlayer took its redeal branch.
RedealScheduled == message = "Everyone passed - redealing..."

\* C1: without a lone declaration, endHand gives the team that called trump 1 point
\* for 3 or 4 tricks and 2 points for all 5, and the other team nothing, whichever
\* team called.  (Every step of SpecEndHand is a call of endHand.)
C1_MakersScore ==
    [][~playingAlone =>
        /\ (callerInTeam1 /\ team1Tricks \in {3, 4}) => Team1Gains(1)
        /\ (callerInTeam1 /\ team1Tricks = 5) => Team1Gains(2)
        /\ (~callerInTeam1 /\ team2Tricks \in {3, 4}) => Team2Gains(1)
        /\ (~callerInTeam1 /\ team2Tricks = 5) => Team2Gains(2)]_vars

\* C2: without a lone declaration, when the calling team took fewer than 3 tricks
\* endHand gives the other team exactly 2 points and the calling team nothing.
C2_EuchredScore ==
    [][~playingAlone =>
        /\ (callerInTeam1 /\ team1Tricks < 3) => Team2Gains(2)
        /\ (~callerInTeam1 /\ team2Tricks < 3) => Team1Gains(2)]_vars

\* C3: a lone player who took all 5 tricks brings their team exactly 4 points and
\* the other team nothing, whichever seat plays alone.
C3_LoneMarchScore ==
    [][(playingAlone /\ players[alonePlayer].tricks = 5) =>
        IF loneInTeam1 THEN Team1Gains(4) ELSE Team2Gains(4)]_vars

\* C4: a lone player who took 3 or 4 tricks brings their team exactly 1 point; one
\* who took fewer than 3 brings the other team exactly 2 points and their own team
\* none, whichever seat plays alone.
C4_LoneScore ==
    [][playingAlone =>
        /\ players[alonePlayer].tricks \in {3, 4} =>
              IF loneInTeam1 THEN Team1Gains(1) ELSE Team2Gains(1)
        /\ players[alonePlayer].tricks < 3 =>
              IF loneInTeam1 THEN Team2Gains(2) ELSE Team1Gains(2)]_vars

\* The page waits for a click of the human: a bid in the trump dialog, a discard
\* in the dealer's dialog, or a card on south's turn.
PageWaits ==
    \/ trumpDialog.active
    \/ discardDialog > 0
    \/ currentPlayer = "south" /\ Len(currentTrick) < expectedCards /\ clickable # {}

\* Nothing will happen any more: no callback is scheduled and the page waits for
\* no click.
AtRest == timers = EmptyBag /\ ~PageWaits

\* C5: once trump is resolved the hand reaches endHand after exactly 5 tricks, as
\* long as every scheduled callback runs and the human plays on their turn: the
\* hand is scored only with 5 tricks taken, and until it is scored a callback is
\* scheduled or the page waits for the human.
C5_HandIsPlayedOut ==
    /\ HandScored => TricksTaken = 5
    /\ (~trumpSelectionPhase /\ ~HandScored) => ~AtRest

\* The three seats other than the dealer have passed in round 2.
StuckDealer ==
    /\ trumpSelectionPhase
    /\ trumpSelectionRound = 2
    /\ Len(passedPlayers) = 3
    /\ \A p \in Seats \ {currentDealer} : \E i \in 1..3 : passedPlayers[i] = p

\* C6: once the dealer is stuck no pass is accepted any more, and the only suit that
\* can be named is one other than the flipped card's.
C6_StuckDealerCannotPass ==
    [][StuckDealer =>
        /\ passedPlayers' = passedPlayers
        /\ trumpSelectionRound' = 2
        /\ trump' \in (Suits \ {flippedCard.suit}) \cup {trump}]_vars

\* C7: bidding never collects a fourth pass in round 2: at most 3 seats have passed
\* in the round under way (so at most 8 bids are made) and the redeal branch of
\* nextTrumpPlayer is never taken.
C7_NoRedeal == Len(passedPlayers) <= 3 /\ ~RedealScheduled

\* C8: a game goes on until endGame, as long as every callback runs and the human
\* acts: before a game has been won or lost there is always a callback scheduled
\* or a click the page waits for.
C8_GameGoesOn == (stats.gamesWon = 0 /\ stats.gamesLost = 0) => ~AtRest

\* C9: the current trick never holds more plays than there are seats playing
\* (4, or 3 with a lone declaration), never two plays of one seat, and it is full
\* exactly while the callback that clears it is pending.
C9_TrickSize ==
    /\ Len(currentTrick) <= expectedCards
    /\ \A i, k \in 1..Len(currentTrick) :
          currentTrick[i].player = currentTrick[k].player => i = k
    /\ (Len(currentTrick) = expectedCards) <=> (Pending("processTrickCompletion") # {})

\* The calls of playCard that C10 is about.
Refused(p, i) ==
    \/ p # currentPlayer
    \/ playingAlone /\ p = getPartner(alonePlayer)
    \/ /\ p = "south"
       /\ Len(currentTrick) > 0
       /\ LET leadSuit == getEffectiveSuit(This, currentTrick[1].card)
          IN  /\ canFollowSuit(This, players["south"].cards, leadSuit)
              /\ getEffectiveSuit(This, players["south"].cards[i]) # leadSuit

\* C10: playCard changes no hand, no trick count, neither the current trick nor
\* currentPlayer (nor anything but the message shown) when it is called for a seat
\* whose turn it is not, for the partner of a lone player, or for south with a card
\* that does not follow a suit south can follow.
C10_RefusedPlayChangesNothing ==
    \A p \in Seats : \A i \in 1..Len(players[p].cards) :
        Refused(p, i) => [playCard(This, p, i) EXCEPT !.message = message] = This

\* C10's case: south's card was refused for not following suit.
C10_Witness == message = "You must follow suit!"

\* C11: selectTrump called in round 2 of the bidding with the flipped card's suit is
\* refused: trump, the round, the acting seat and the passed seats stay as they
\* are and the bidding is still open.
C11_FlippedSuitRefused ==
    (trumpSelectionPhase /\ trumpSelectionRound = 2) =>
        LET g == selectTrump(This, flippedCard.suit)
        IN  /\ g.trump = trump
            /\ g.trumpSelectionRound = trumpSelectionRound
            /\ g.trumpSelectionPlayer = trumpSelectionPlayer
            /\ g.passedPlayers = passedPlayers
            /\ g.trumpSelectionPhase

\* The bidding of the hand is closed with a trump suit.
TrumpResolved == ~trumpSelectionPhase /\ trump # "none"

\* C12: trump resolved in round 1 is the flipped card's suit; trump resolved in
\* round 2 is another suit, whoever named it.
C12_TrumpAgainstFlipped ==
    trump # "none" =>
        IF trumpSelectionRound = 1
        THEN trump = flippedCard.suit
        ELSE trump # flippedCard.suit

\* C12's case: the human has named trump in round 2 and the bidding is closed.
C12_Witness ==
    TrumpResolved /\ trumpSelectionRound = 2 /\ trumpSelectionPlayer = "south"

\* The four seats clockwise from the seat left of the dealer, the dealer last.
BidOrder == [i \in 1..4 |-> seatAfter(currentDealer, i)]

\* While the bidding is open: the seats that passed in this round are the first
\* seats of the order, in order, and the seat to act is the next one.
BidsInOrder ==
    trumpSelectionPhase =>
        /\ trumpTurnOrder = BidOrder
        /\ Len(passedPlayers) <= 4
        /\ passedPlayers = SubSeq(BidOrder, 1, Len(passedPlayers))
        /\ Len(passedPlayers) < 4 => trumpSelectionPlayer = BidOrder[Len(passedPlayers) + 1]

\* C13: in each round the seats bid clockwise from the seat left of the dealer to
\* the dealer, a seat only after the seats before it have passed in that round; round
\* 2 starts, with the same first seat and nobody passed, only when the fourth seat
\* of round 1 (the dealer) passes.
C13_BiddingOrder ==
    [][/\ BidsInOrder'
       /\ trumpSelectionRound' # trumpSelectionRound =>
             /\ trumpSelectionRound = 1 /\ trumpSelectionRound' = 2
             /\ passedPlayers = SubSeq(BidOrder, 1, 3)
             /\ trumpSelectionPlayer = currentDealer
             /\ passedPlayers' = <<>>
             /\ trumpSelectionPlayer' = BidOrder[1]
             /\ trumpSelectionPhase']_vars

\* C13's case: the dealer's turn in round 2, the other three having passed.
C13_Witness ==
    /\ trumpSelectionPhase /\ trumpSelectionRound = 2
    /\ Len(passedPlayers) = 3 /\ trumpSelectionPlayer = currentDealer

\* No card of the hand has been played yet.
NoCardPlayed == currentTrick = <<>> /\ TricksTaken = 0

\* The hands of the seats other than p stay as they are.
OthersKeepHands(p) == \A q \in Seats \ {p} : players'[q] = players[q]

HandCards ==
    players["south"].cards \o players["west"].cards \o
    players["north"].cards \o players["east"].cards

\* No card occurs twice in seq.
Distinct(seq) == \A i, k \in 1..Len(seq) : seq[i] = seq[k] => i = k

\* seq holds each of the 24 cards of createDeck exactly once.
IsFullDeck(seq) ==
    /\ Len(seq) = 24
    /\ Distinct(seq)
    /\ \A k \in 1..24 : \E i \in 1..24 : seq[i] = createDeck[k]

\* C15: after dealCards every seat holds 5 cards, one card is flipped, the kitty
\* holds 3, and these 24 cards are the 24 different cards of the deck.
C15_DealCounts ==
    stats.handsPlayed > 0 =>
        /\ \A p \in Seats : Len(players[p].cards) = 5
        /\ flippedCard # NoCard
        /\ Len(kitty) = 3
        /\ IsFullDeck(HandCards \o kitty \o <<flippedCard>>)

\* C15's case: a deal by dealer east, three cards first.
C15_Witness ==
    /\ stats.handsPlayed = 1 /\ currentDealer = "east"
    /\ \E seed \in ShuffleSeeds : Is(newGame(constructor("east"), seed, 3))

\* C17: createDeck followed by shuffle leaves in this.deck a permutation of the 24
\* cards, each exactly once, whatever the draws of the loop (the draw sequences of
\* ShuffleSeeds).
C17_ShuffleIsPermutation ==
    (stats.handsPlayed = 0 /\ deck # <<>>) => IsFullDeck(deck)

\* C17's case: createDeck has run and shuffle has reordered the deck.
C17_Witness == stats.handsPlayed = 0 /\ Len(deck) = 24 /\ deck # createDeck

\* The flipped card lies aside: it is set and in no hand.
FlippedAside ==
    flippedCard # NoCard /\ \A i \in 1..Len(HandCards) : HandCards[i] # flippedCard

\* The cards played so far in the hand: the tricks already cleared, and the plays
\* of the current trick (evaluateTrick counts a trick for its winner before
\* processTrickCompletion clears it).
CardsPlayed ==
    LET cleared == IF Pending("processTrickCompletion") # {}
                   THEN TricksTaken - 1 ELSE TricksTaken
    IN  expectedCards * cleared + Len(currentTrick)

\* The cards of the current trick.
TrickCards == [i \in 1..Len(currentTrick) |-> currentTrick[i].card]

\* C16: at every point of a hand, until it is scored, the cards in the hands, the
\* kitty, the flipped card (once, while it lies aside) and the cards played add up
\* to 24, and no card is in two of these places.
C16_CardsConserved ==
    ~HandScored =>
        /\ Len(HandCards) + Len(kitty) + (IF FlippedAside THEN 1 ELSE 0) + CardsPlayed = 24
        /\ Distinct(HandCards \o kitty \o TrickCards \o
                    (IF FlippedAside THEN <<flippedCard>> ELSE <<>>))

\* C18: trump is null while the bidding of a hand is open, in the first hand and in
\* every later one, and set whenever a card lies in a trick or a trick has been
\* taken.
C18_TrumpNullInBidding ==
    /\ trumpSelectionPhase => trump = "none"
    /\ ~NoCardPlayed => trump # "none"

\* processTrickCompletion finds south's hand empty and calls endHand.
EndHandStep ==
    /\ Pending("processTrickCompletion") # {}
    /\ currentTrick # <<>> /\ currentTrick' = <<>>
    /\ Len(players["south"].cards) = 0

\* The callback of endGame runs newGame.
NewGameStep ==
    Pending("newGame") # {} /\ BagCardinality(timers') <= BagCardinality(timers)
    /\ round' = 1 /\ trumpSelectionPhase'

\* C19: a score goes down only when newGame sets both to 0; a step changes a score
\* otherwise only by endHand, and endHand adds 1, 2 or 4 to the score of exactly
\* one team.
C19_ScoresGrow ==
    [][/\ (team1Score' < team1Score \/ team2Score' < team2Score) =>
            (NewGameStep /\ team1Score' = 0 /\ team2Score' = 0)
       /\ EndHandStep => \E n \in {1, 2, 4} : Team1Gains(n) \/ Team2Gains(n)
       /\ (team1Score' > team1Score \/ team2Score' > team2Score) => EndHandStep]_vars

\* C19's case: a game was lost, newGame has set the scores to 0, and the next hand
\* has been scored.
C19_Witness == stats.gamesLost = 1 /\ team1Score = 0 /\ team2Score = 2 /\ round = 2

\* A team has 10 points or more: exactly one team, with at most 13, endGame has
\* counted the game and scheduled newGame, and no deal is scheduled.
GameOverRight ==
    (team1Score >= 10 \/ team2Score >= 10) =>
        /\ ~(team1Score >= 10 /\ team2Score >= 10)
        /\ team1Score <= 13 /\ team2Score <= 13
        /\ Pending("newGame") # {}
        /\ Pending("dealCards") = {}
        /\ stats.gamesWon + stats.gamesLost > 0

\* C20: when endHand brings a score to 10 or more it calls endGame in the same
\* step; both teams are never at 10 or more, the winner has at most 13; and a
\* hand is dealt only with both scores below 10.
C20_GameEndsAtTen ==
    [][/\ GameOverRight'
       /\ (EndHandStep /\ (team1Score' >= 10 \/ team2Score' >= 10)) =>
             stats'.gamesWon + stats'.gamesLost = stats.gamesWon + stats.gamesLost + 1
       /\ stats'.handsPlayed # stats.handsPlayed =>
             (team1Score' < 10 /\ team2Score' < 10)]_vars

\* C20's case: a lone march from 9 points has ended the game at 13.
C20_Witness == team1Score = 13 /\ team2Score < 10 /\ Pending("newGame") # {}

\* The seat sitting out: the lone player's partner.
sittingOut == getPartner(alonePlayer)

\* A step that moves one card from a hand into the current trick.
CardPlayedStep == Len(currentTrick') = Len(currentTrick) + 1

\* While a lone declaration is active the partner has no play on the table, has
\* taken no trick, and is not the seat an AI play is scheduled for.
PartnerSitsOut ==
    playingAlone =>
        /\ \A i \in 1..Len(currentTrick) : currentTrick[i].player # sittingOut
        /\ players[sittingOut].tricks = 0
        /\ Pending("aiPlay") # {} => currentPlayer # sittingOut

Colour(suit) == IF suit \in {"H", "D"} THEN "red" ELSE "black"

\* The bowers and the trump cards under trump suit t.
IsRightBower(card, t) == card.rank = "J" /\ card.suit = t
IsLeftBower(card, t) == card.rank = "J" /\ card.suit # t /\ Colour(card.suit) = Colour(t)
IsTrumpCard(card, t) == card.suit = t \/ IsLeftBower(card, t)

\* Rank within trump: right bower, left bower, A, K, Q, 10, 9.
TrumpRank(card, t) ==
    CASE IsRightBower(card, t) -> 7 [] IsLeftBower(card, t) -> 6
      [] card.rank = "A" -> 5 [] card.rank = "K" -> 4 [] card.rank = "Q" -> 3
      [] card.rank = "10" -> 2 [] OTHER -> 1

\* Rank within a plain suit: A, K, Q, J, 10, 9.
PlainRank(card) ==
    CASE card.rank = "A" -> 6 [] card.rank = "K" -> 5 [] card.rank = "Q" -> 4
      [] card.rank = "J" -> 3 [] card.rank = "10" -> 2 [] OTHER -> 1

\* The play that takes a trick: the highest trump if a trump was played, else
\* the highest card of the led card's suit.
TrickWinner(trick, t) ==
    LET trumps == {i \in 1..Len(trick) : IsTrumpCard(trick[i].card, t)}
        led    == {i \in 1..Len(trick) : trick[i].card.suit = trick[1].card.suit}
    IN  IF trumps # {}
        THEN CHOOSE i \in trumps :
                \A k \in trumps : TrumpRank(trick[k].card, t) <= TrumpRank(trick[i].card, t)
        ELSE CHOOSE i \in led :
                \A k \in led : PlainRank(trick[k].card) <= PlainRank(trick[i].card)

\* The step that completes a trick: the last expected card is played.
TrickCompletedStep ==
    CardPlayedStep /\ Len(currentTrick') = (IF playingAlone THEN 3 ELSE 4)

\* C22: when a trick is completed, evaluateTrick credits exactly one seat with
\* exactly one trick, and that seat played the highest trump (right bower, left
\* bower, A, K, Q, 10, 9) if a trump was played, else the highest card of the led
\* card's suit; the winning card's value is strictly above every other card's;
\* and no other step credits a trick.
C22_TrickWinner ==
    [][/\ TrickCompletedStep =>
             LET trick  == currentTrick'
                 w      == TrickWinner(trick, trump)
                 value(i) == getCardValue(trick[i].card, trump, trick[1].card.suit)
             IN  /\ players'[trick[w].player].tricks = players[trick[w].player].tricks + 1
                 /\ \A p \in Seats \ {trick[w].player} :
                       players'[p].tricks = players[p].tricks
                 /\ \A k \in (1..Len(trick)) \ {w} : value(k) < value(w)
       /\ (\E p \in Seats : players'[p].tricks > players[p].tricks) =>
             TrickCompletedStep]_vars

\* C22's case: a trick was taken with the left bower over the ace of trump.
C22_Witness ==
    /\ Pending("processTrickCompletion") # {}
    /\ \E i, k \in 1..Len(currentTrick) :
          /\ IsLeftBower(currentTrick[i].card, trump)
          /\ currentTrick[k].card.suit = trump
          /\ \A t \in Pending("processTrickCompletion") :
                t.winner = currentTrick[i].player

\* The cards of the deck.
Cards == {createDeck[k] : k \in 1..Len(createDeck)}

\* The suit of the left bower under trump suit t.
LeftSuit(t) == CHOOSE s \in Suits : s # t /\ Colour(s) = Colour(t)

\* getCardValue orders the trump cards of trump suit t under lead suit lead:
\* right bower, left bower, A, K, Q, 10, 9, each strictly above the next, and the
\* 9 strictly above every card that is neither of suit t nor a bower.
RankedUnder(t, lead) ==
    LET v(rank, suit) == getCardValue([rank |-> rank, suit |-> suit], t, lead)
    IN  /\ v("J", t) > v("J", LeftSuit(t))
        /\ v("J", LeftSuit(t)) > v("A", t)
        /\ v("A", t) > v("K", t)
        /\ v("K", t) > v("Q", t)
        /\ v("Q", t) > v("10", t)
        /\ v("10", t) > v("9", t)
        /\ \A c \in Cards :
              (c.suit # t /\ ~IsLeftBower(c, t)) => v("9", t) > v(c.rank, c.suit)

\* C23: once trump is named, for every trump suit and every lead suit (none
\* included) getCardValue ranks J of trump > J of the same colour > A > K > Q >
\* 10 > 9 of trump > every card that is neither of the trump suit nor a bower.
C23_CardRanking ==
    trump # "none" =>
        \A t \in Suits : \A lead \in Suits \cup {"none"} : RankedUnder(t, lead)

\* C23's case: trump is in force and a trick is being evaluated with it.
C23_Witness ==
    /\ trump = "D" /\ Pending("processTrickCompletion") # {}
    /\ \E i \in 1..Len(currentTrick) : currentTrick[i].card.suit = "D"

\* C24: once trump is named, for every trump suit and every card getEffectiveSuit
\* returns the trump suit for the Jack of trump and for the Jack of the other suit
\* of the same colour, and the card's printed suit for every other card.
C24_EffectiveSuit ==
    trump # "none" =>
        \A t \in Suits : \A card \in Cards :
            getEffectiveSuit([This EXCEPT !.trump = t], card) =
                (IF IsRightBower(card, t) \/ IsLeftBower(card, t) THEN t ELSE card.suit)

\* C24's case: the left bower has been played to a trick led in trump.
C24_Witness ==
    /\ trump # "none" /\ Len(currentTrick) > 1
    /\ currentTrick[1].card.suit = trump
    /\ \E i \in 2..Len(currentTrick) : IsLeftBower(currentTrick[i].card, trump)

\* The effective suit of the card that leads the current trick.
LedSuit == getEffectiveSuit(This, currentTrick[1].card)

\* The seat holds a card of the given effective suit.
Holds(p, suit) ==
    \E i \in 1..Len(players[p].cards) : getEffectiveSuit(This, players[p].cards[i]) = suit

\* C25: isCardPlayable(card, seat) is false for a seat not on turn; for the seat
\* on turn it is true when the trick is empty, and when it is not, true exactly
\* when the card's effective suit is the led card's effective suit or the seat's
\* hand holds no card of that effective suit.
C25_IsCardPlayable ==
    \A p \in Seats : \A card \in Cards :
        isCardPlayable(This, card, p) <=>
            /\ p = currentPlayer
            /\ \/ Len(currentTrick) = 0
               \/ getEffectiveSuit(This, card) = LedSuit
               \/ ~Holds(p, LedSuit)

\* C25's case: the human is on turn in a trick led in trump, holds the left bower
\* and a card of another suit, so that isCardPlayable is true for the one and
\* false for the other.
C25_Witness ==
    /\ currentPlayer = "south" /\ Len(currentTrick) > 0 /\ timers = EmptyBag
    /\ LedSuit = trump
    /\ \E i, k \in 1..Len(players["south"].cards) :
          /\ IsLeftBower(players["south"].cards[i], trump)
          /\ isCardPlayable(This, players["south"].cards[i], "south")
          /\ ~isCardPlayable(This, players["south"].cards[k], "south")

\* The seat startPlay gives the lead to: left of the dealer, or the seat after it
\* when that seat is the lone player's partner.
FirstLeader ==
    LET first == seatAfter(currentDealer, 1)
    IN  IF playingAlone /\ first = getPartner(alonePlayer)
        THEN seatAfter(currentDealer, 2) ELSE first

\* The step that plays the first card of a hand.
FirstCardStep == NoCardPlayed /\ CardPlayedStep

\* C26: the first card of every hand is played by the seat left of the dealer,
\* or by the next seat clockwise when that seat is the lone player's partner; no
\* other seat plays the first card, and it is played after trump is named.
C26_FirstLead ==
    [][FirstCardStep =>
          /\ currentTrick'[1].player = FirstLeader
          /\ trump # "none" /\ ~trumpSelectionPhase /\ ~dealerDiscardPhase]_vars

\* C26's case: the seat left of the dealer sits out and the next seat has led.
C26_Witness ==
    /\ playingAlone /\ seatAfter(currentDealer, 1) = getPartner(alonePlayer)
    /\ TricksTaken = 0 /\ Len(currentTrick) = 1
    /\ currentTrick[1].player = seatAfter(currentDealer, 2)

\* The seat the deal passes to.
DealerCycle(seat) ==
    CASE seat = "south" -> "west" [] seat = "west" -> "north"
      [] seat = "north" -> "east" [] seat = "east" -> "south"

\* C27: the step that ends a hand without ending the game moves the dealer one
\* seat on in south, west, north, east, south, before the next deal; no other
\* step changes the dealer, so it stays the same from a deal to the end of that
\* hand.
C27_DealerRotates ==
    [][/\ (EndHandStep /\ team1Score' < 10 /\ team2Score' < 10) =>
             /\ currentDealer' = DealerCycle(currentDealer)
             /\ Pending("dealCards")' # {}
       /\ currentDealer' # currentDealer => EndHandStep
       /\ stats'.handsPlayed # stats.handsPlayed => currentDealer' = currentDealer]_vars

\* C27's case: the hand dealt by east has ended, the deal has passed to south and
\* south has dealt the next hand.
C27_Witness ==
    /\ stats.handsPlayed = 2 /\ round = 2 /\ currentDealer = "south"
    /\ trumpSelectionPhase /\ Len(players["south"].cards) = 5

\* The tricks of the team of the seat that set trump, and the points of a step
\* going to that team or to the other.
callerTricks == IF callerInTeam1 THEN team1Tricks ELSE team2Tricks
CallersGain(n) == IF callerInTeam1 THEN Team1Gains(n) ELSE Team2Gains(n)
OthersGain(n) == IF callerInTeam1 THEN Team2Gains(n) ELSE Team1Gains(n)

\* C28: the seat that set trump through selectTrump is the trump caller the
\* scoring goes by: when endHand scores the hand, the caller's team is the one
\* that gains for 3 tricks or more (1 point, 2 for all five, 4 for all five
\* alone) and the other team gains 2 when the caller's team took fewer.
C28_CallerIsScored ==
    [][EndHandStep =>
          /\ callerTricks = 5 => CallersGain(IF playingAlone THEN 4 ELSE 2)
          /\ callerTricks \in {3, 4} => CallersGain(1)
          /\ callerTricks < 3 => OthersGain(2)]_vars

\* C29: between the deal and the end of the hand the difficulty does not change,
\* and with it the probabilities getAIAggressiveness gives the AI bidding: a
\* difficulty-changed event that arrives during the hand alters neither.
C29_DifficultyFixedInHand ==
    [][~HandScored =>
          /\ difficulty' = difficulty
          /\ getAIAggressiveness(This)' = getAIAggressiveness(This)]_vars

\* C30: every card a seat, human or AI, adds to a trick that is not empty has
\* the effective suit of the led card whenever the seat's hand held a card of
\* that effective suit.
C30_SuitFollowed ==
    [][(CardPlayedStep /\ Len(currentTrick) > 0) =>
          LET play == currentTrick'[Len(currentTrick')]
          IN  Holds(play.player, LedSuit) => getEffectiveSuit(This, play.card) = LedSuit]_vars

\* C30's case: an AI seat has followed a trump lead with the left bower.
C30_Witness ==
    /\ Len(currentTrick) > 1 /\ trump # "none"
    /\ getEffectiveSuit(This, currentTrick[1].card) = trump
    /\ \E i \in 2..Len(currentTrick) :
          /\ currentTrick[i].player # "south"
          /\ IsLeftBower(currentTrick[i].card, trump)

\* The cards of seat p's hand that may be played to the current trick: those of
\* the led effective suit if the hand holds any, else every card.
LegalCards(p) ==
    LET hand == players[p].cards
        all  == {hand[i] : i \in 1..Len(hand)}
    IN  IF Holds(p, LedSuit)
        THEN {c \in all : getEffectiveSuit(This, c) = LedSuit}
        ELSE all

\* C31: the card an AI seat plays to a trick that has a led card has the minimum
\* getCardValue, under the trump in force and the led card's suit, among the
\* cards of its hand that are legal to play.
C31_AiPlaysLowest ==
    [][(CardPlayedStep /\ Len(currentTrick) > 0
            /\ players[currentTrick'[Len(currentTrick')].player].isAI) =>
          LET play == currentTrick'[Len(currentTrick')]
              lead == currentTrick[1].card.suit
          IN  \A c \in LegalCards(play.player) :
                 getCardValue(play.card, trump, lead) <= getCardValue(c, trump, lead)]_vars

\* The step in which an AI dealer picks up the flipped card: round 1 of the
\* bidding ends with trump set and the dealer is not south.
AiPickupStep ==
    /\ trumpSelectionPhase /\ ~trumpSelectionPhase'
    /\ trumpSelectionRound = 1 /\ currentDealer # "south"

\* C32: the card an AI dealer discards after picking up the flipped card has the
\* minimum getCardValue(card, trump, null) of its six cards; it is a trump-suit
\* card or a bower only if all six are; and five cards are left in the hand.
C32_AiDiscardsLowest ==
    [][AiPickupStep =>
          LET six  == Append(players[currentDealer].cards, flippedCard)
              kept == players'[currentDealer].cards
              value(k) == getCardValue(six[k], trump', "none")
          IN  /\ Len(six) = 6 /\ Len(kept) = 5
              /\ \E i \in 1..6 :
                    /\ kept = Remove(six, i)
                    /\ \A k \in 1..6 : value(i) <= value(k)
                    /\ IsTrumpCard(six[i], trump') =>
                          \A k \in 1..6 : IsTrumpCard(six[k], trump')]_vars

\* The step in which processTrickCompletion clears a trick without ending the
\* hand.
TrickClearedStep ==
    /\ Pending("processTrickCompletion") # {}
    /\ currentTrick # <<>> /\ currentTrick' = <<>>
    /\ Len(players["south"].cards) # 0

\* C33: after a trick that is not the last of the hand no card is played until
\* the trick is cleared, clearing it gives the turn to the seat that won it, the
\* turn stays there while the trick is empty, and the next card is played by
\* that seat.
C33_WinnerLeads ==
    [][/\ Pending("processTrickCompletion") # {} => ~CardPlayedStep
       /\ TrickClearedStep =>
             \A t \in Pending("processTrickCompletion") : currentPlayer' = t.winner
       /\ (TricksTaken >= 1 /\ currentTrick = <<>> /\ currentTrick' = <<>>) =>
             currentPlayer' = currentPlayer
       /\ (TricksTaken >= 1 /\ currentTrick = <<>> /\ CardPlayedStep) =>
             currentTrick'[1].player = currentPlayer]_vars

\* The seat that plays after seat p: the next seat clockwise, or the one after
\* it when that seat sits out.
NextActive(p) ==
    IF playingAlone /\ DealerCycle(p) = sittingOut
    THEN DealerCycle(DealerCycle(p)) ELSE DealerCycle(p)

\* The plays of the current trick are in clockwise order of the active seats and
\* no seat has played twice.
TrickInOrder ==
    /\ Len(currentTrick) <= (IF playingAlone THEN 3 ELSE 4)
    /\ \A i \in 2..Len(currentTrick) :
          currentTrick[i].player = NextActive(currentTrick[i - 1].player)

\* C34: a play that does not complete the trick passes the turn, through
\* nextPlayer, to the next seat in south, west, north, east, south, skipping the
\* lone player's partner; and within one trick the active seats play in that
\* order, each exactly once.
C34_TurnsClockwise ==
    [][/\ (CardPlayedStep /\ ~TrickCompletedStep) =>
             currentPlayer' = NextActive(currentTrick'[Len(currentTrick')].player)
       /\ TrickInOrder']_vars

\* The seats that take part in the hand: all but the lone player's partner.
ActiveSeats == IF playingAlone THEN Seats \ {sittingOut} ELSE Seats

\* C35: endHand runs only when the trick counts of the four seats sum to 5 and
\* every seat that took part in the hand has an empty hand, and it has not run
\* for this hand before.
C35_EndHandOnce ==
    [][EndHandStep =>
          /\ TricksTaken = 5
          /\ \A p \in ActiveSeats : Len(players[p].cards) = 0
          /\ ~HandScored]_vars

\* The deal of deck cards by the dealer of this state: the k-th card popped
\* (k = 0..19) is card k \div 4 + 1 of the seat k % 4 places after the seat left of
\* the dealer, the next card is the flipped card and the last three the kitty.
DealtFrom(cards) ==
    /\ \A p \in Seats : Len(players'[p].cards) = 5
    /\ \A k \in 0..19 :
          players'[seatAfter(currentDealer, 1 + (k % 4))].cards[(k \div 4) + 1] =
              cards[Len(cards) - k]
    /\ flippedCard' = cards[Len(cards) - 20]
    /\ kitty' = SubSeq(cards, 1, Len(cards) - 21)

\* C36: dealCards gives the k-th card it deals to the seat k mod 4 places after
\* the seat left of the dealer, so that the seat left of the dealer has the first
\* card and the dealer the last; hands, flipped card and kitty depend on the
\* shuffled deck and the dealer only, not on the batch split drawn.
C36_DealOrder ==
    [][stats'.handsPlayed = stats.handsPlayed + 1 =>
          /\ currentDealer' = currentDealer
          /\ \E seed \in ShuffleSeeds : DealtFrom(shuffle(createDeck, seed))]_vars

\* C36's case: north has dealt; east holds the first card of the deck and north
\* the twentieth.
C36_Witness ==
    /\ stats.handsPlayed = 1 /\ currentDealer = "north"
    /\ \E seed \in ShuffleSeeds :
          /\ players["east"].cards[1] = shuffle(createDeck, seed)[24]
          /\ players["north"].cards[5] = shuffle(createDeck, seed)[5]
          /\ flippedCard = shuffle(createDeck, seed)[4]

\* The bidding or the dealer's discard is in progress, or startPlay has not yet
\* given the lead.
BeforePlay ==
    trumpSelectionPhase \/ dealerDiscardPhase \/ Pending("startPlay") # {}

\* C37: from the deal to the moment the callback of startPlay names the first
\* leader no card moves from a hand into the current trick, in the first hand
\* and in every later one.
C37_NoPlayBeforeLead ==
    [][BeforePlay => (~CardPlayedStep /\ currentTrick' = currentTrick)]_vars

\* The seats of the plays on the table.
TrickSeats == [i \in 1..Len(currentTrick) |-> currentTrick[i].player]

\* C38: a callback left pending by the hand a new game interrupts does not act on
\* the new hand: no seat is recorded twice in passedPlayers in a bidding round
\* and no seat has two cards in a trick.
C38_StaleCallbacksInert == Distinct(passedPlayers) /\ Distinct(TrickSeats)

\* The step in which the callback endGame scheduled runs newGame.
NewGameRuns == Pending("newGame") # {} /\ Pending("newGame")' = {}

\* C39: newGame sets both scores to 0 and the round to 1, clears the trick,
\* trump, the passed seats and the lone declaration, and deals a fresh hand; it
\* leaves the dealer and the games won and lost as they were, and so does the
\* endHand that ends a game: the next game's first hand is dealt by the seat
\* that dealt the last hand of the finished game.
C39_NewGameResets ==
    [][/\ NewGameRuns =>
             /\ team1Score' = 0 /\ team2Score' = 0 /\ round' = 1
             /\ currentTrick' = <<>> /\ trump' = "none"
             /\ passedPlayers' = <<>>
             /\ ~playingAlone' /\ alonePlayer' = "none"
             /\ \A p \in Seats : Len(players'[p].cards) = 5 /\ players'[p].tricks = 0
             /\ flippedCard' # NoCard /\ Len(kitty') = 3
             /\ stats'.handsPlayed = stats.handsPlayed + 1
             /\ currentDealer' = currentDealer
             /\ stats'.gamesWon = stats.gamesWon
             /\ stats'.gamesLost = stats.gamesLost
       /\ (EndHandStep /\ (team1Score' >= 10 \/ team2Score' >= 10)) =>
             currentDealer' = currentDealer]_vars

\* C39's case: a game was won at 10 or more, and newGame has dealt the first
\* hand of the next game with the scores at 0.
C39_Witness ==
    /\ stats.gamesWon = 1 /\ stats.handsPlayed = 2
    /\ team1Score = 0 /\ team2Score = 0 /\ round = 1
    /\ trumpSelectionPhase /\ Len(players["south"].cards) = 5

====
